---- MODULE Spec2Model ----
(***************************************************************************)
(* A model of src/bot.py (the ShikakuUtsu Discord bot): the notification   *)
(* scheduler (active_timers, check_timers, /timer, /alarm), the durable    *)
(* preference store (load_data, atomic_write_json, save_bot_data), the     *)
(* preference and memo commands, and reply_helper.                         *)
(*                                                                         *)
(* Instants are whole seconds.  A UTC instant is a number of seconds since *)
(* an arbitrary UTC midnight; an aware local datetime is a wall-clock      *)
(* number of seconds plus the fold bit of PEP 495.                         *)
(***************************************************************************)
EXTENDS Integers, Sequences, FiniteSets, TLC

VARIABLES
    now,            \* the clock: datetime.datetime.now(timezone.utc)
    zone,           \* TZ = ZoneInfo(DEFAULT_TZ)
    channels,       \* per channel id, the class of what client.get_channel
                    \* returns: "TextChannel", "Thread", "VoiceChannel" or "None"
    active_timers,  \* client.active_timers: list of dicts
    created,        \* every dict ever appended, by identity (history)
    scan,           \* per coroutine running check_timers: its position and locals
    attempts,       \* per entry identity: number of channel.send calls made for it
    failures,       \* per entry identity: number of channel.send calls that raised
    scanRaised,     \* an exception left check_timers
    response,       \* the last interaction.response.send_message
    nicknames, greeting_prefs, silent_prefs, memos, model_prefs,  \* the five maps
    fs,             \* the files of the working directory: path -> file
    save,           \* the position of save_bot_data / atomic_write_json
    ops,            \* preference commands issued so far (history)
    startup,        \* "running", or the exception that ended ShikakuUtsu.__init__
    final_reply,    \* the last text reply_helper passed to message.channel.send
    shown           \* what the last read command (my_status, memo show/list) displayed

schedVars == <<now, zone, channels, active_timers, created, scan,
               attempts, failures, scanRaised>>
prefVars  == <<nicknames, greeting_prefs, silent_prefs, memos, model_prefs>>
storeVars == <<fs, save, ops>>
ioVars    == <<startup, final_reply, shown>>
vars      == <<schedVars, response, prefVars, storeVars, ioVars>>

----------------------------------------------------------------------------
(* Bounds of the model *)

MaxTimers == 2      \* entries ever appended to active_timers
MaxOps == 2         \* preference commands issued

(* Units of datetime.timedelta *)
SecPerMin == 60
SecPerHour == 3600
SecPerDay == 86400

Min(a, b) == IF a < b THEN a ELSE b
Max(a, b) == IF a < b THEN b ELSE a

----------------------------------------------------------------------------
(* zoneinfo.ZoneInfo: a zone has UTC offset off1 before the UTC instant    *)
(* trans and off2 from it on (off1 = off2: a zone without transitions,     *)
(* such as the default Asia/Tokyo).                                        *)

Tokyo == [name |-> "Asia/Tokyo", off1 |-> 9 * SecPerHour, off2 |-> 9 * SecPerHour,
          trans |-> 0]
\* America/New_York around a spring-forward night (02:00 EST -> 03:00 EDT)
NewYorkSpring == [name |-> "America/New_York", off1 |-> -(5 * SecPerHour),
                  off2 |-> -(4 * SecPerHour), trans |-> 3 * SecPerDay + 7 * SecPerHour]
\* America/New_York around a fall-back night (02:00 EDT -> 01:00 EST)
NewYorkFall == [name |-> "America/New_York", off1 |-> -(4 * SecPerHour),
                off2 |-> -(5 * SecPerHour), trans |-> 3 * SecPerDay + 6 * SecPerHour]

DefaultZone == Tokyo
Zones == {Tokyo, NewYorkSpring, NewYorkFall}

\* datetime.datetime.now(TZ): the aware local datetime of UTC instant u
UtcOffsetAt(z, u) == IF u < z.trans THEN z.off1 ELSE z.off2
FoldAt(z, u) ==
    IF z.off2 < z.off1 /\ u >= z.trans /\ u < z.trans + (z.off1 - z.off2)
    THEN 1 ELSE 0
NowLocal(z, u) == [wall |-> u + UtcOffsetAt(z, u), fold |-> FoldAt(z, u)]

\* tzinfo.utcoffset of a wall-clock time (PEP 495): in a gap or an overlap the
\* fold bit picks the offset before (0) or after (1) the transition
UtcOffsetOfWall(z, wall, fold) ==
    IF wall < z.trans + Min(z.off1, z.off2) THEN z.off1
    ELSE IF wall >= z.trans + Max(z.off1, z.off2) THEN z.off2
    ELSE IF fold = 0 THEN z.off1 ELSE z.off2

\* dt.astimezone(datetime.timezone.utc)
AsUtc(z, dt) == dt.wall - UtcOffsetOfWall(z, dt.wall, dt.fold)

\* dt.replace(hour=, minute=, second=0, microsecond=0): same date, same fold
ReplaceTime(dt, hour, minute) ==
    [wall |-> (dt.wall \div SecPerDay) * SecPerDay + hour * SecPerHour + minute * SecPerMin,
     fold |-> dt.fold]

\* dt + datetime.timedelta(days=1): wall-clock arithmetic
PlusOneDay(dt) == [wall |-> dt.wall + SecPerDay, fold |-> dt.fold]

----------------------------------------------------------------------------
(* The environment the scheduler sees *)

Users == {1, 2}                 \* interaction.user.id
ChannelIds == {1, 2}            \* interaction.channel.id
Runs == {"loop", "direct"}      \* coroutines running check_timers
SendOutcomes == {"ok", "HTTPException", "Forbidden"}   \* channel.send returns or raises

\* An optional string argument: <<>> is None, <<s>> is the string s

\* `message or default`: None and the empty string are both falsy
MessageOr(message, default) ==
    IF message = <<>> \/ message[1] = "" THEN default ELSE message[1]

\* isinstance(channel, (discord.TextChannel, discord.Thread))
IsSendable(kind) == kind \in {"TextChannel", "Thread"}

\* `except Exception as e` around channel.send
Caught(outcome) == outcome \in {"HTTPException", "Forbidden"}

----------------------------------------------------------------------------
(* active_timers: a list of dicts.  Two dicts are == when their four keys  *)
(* agree; the id field is the object's identity and the during field a     *)
(* history of its creation, neither of which == reads.                     *)

SameFields(a, b) ==
    /\ a.time = b.time
    /\ a.channel_id = b.channel_id
    /\ a.user_id = b.user_id
    /\ a.message = b.message

\* list.remove(t): drops the first element equal to t; ValueError (swallowed
\* by the caller) when there is none
RECURSIVE ListRemove(_, _)
ListRemove(list, t) ==
    IF list = <<>> THEN <<>>
    ELSE IF SameFields(Head(list), t) THEN Tail(list)
    ELSE <<Head(list)>> \o ListRemove(Tail(list), t)

\* the comparison turned round: entries due later are taken, earlier ones left
IsDue_reversed(t, at) == t.time >= at

\* the comparison made strict: an entry is not taken at its due instant
IsDue_strict(t, at) == t.time < at

\* the comparison of the list comprehension: t["time"] <= now
IsDue(t, at) == t.time <= at

\* due = [t for t in list(self.active_timers) if t.get("time") and t["time"] <= now]
DueList(timers, at) == SelectSeq(timers, LAMBDA t : IsDue(t, at))

\* The for loop of check_timers from position i up to its next suspension:
\* entries whose channel is not sendable are removed without a send and
\* without yielding; the loop stops at the first entry it has to send for
\* (pc = "sending") or at the end of due (pc = "idle").
RECURSIVE RunToAwait(_, _, _, _)
RunToAwait(timers, due, i, chans) ==
    IF i > Len(due) THEN [timers |-> timers, i |-> 0, pc |-> "idle"]
    ELSE IF IsSendable(chans[due[i].channel_id])
         THEN [timers |-> timers, i |-> i, pc |-> "sending"]
         ELSE RunToAwait(ListRemove(timers, due[i]), due, i + 1, chans)

IdleScan == [pc |-> "idle", at |-> 0, due |-> <<>>, i |-> 0]

\* the bookkeeping of a send call: one more attempt for the entry sent
CountSend(count, r) ==
    IF r.pc = "sending" THEN [count EXCEPT ![r.due[r.i].id] = @ + 1] ELSE count

\* check_timers is entered: due is computed and the loop runs to its first await
ScanStart(run) ==
    /\ startup = "running"
    /\ scan[run].pc = "idle"
    /\ LET due == DueList(active_timers, now)
           r == RunToAwait(active_timers, due, 1, channels)
           s == IF r.pc = "idle" THEN IdleScan
                ELSE [pc |-> r.pc, at |-> now, due |-> due, i |-> r.i]
       IN /\ scan' = [scan EXCEPT ![run] = s]
          /\ active_timers' = r.timers
          /\ attempts' = CountSend(attempts, s)
    /\ UNCHANGED <<now, zone, channels, created, failures, scanRaised,
                   response, prefVars, storeVars, ioVars>>

\* channel.send returns or raises: the except clause, the remove, and the
\* loop on to its next await
SendReturns(run, outcome) ==
    /\ scan[run].pc = "sending"
    /\ LET cur == scan[run]
           t == cur.due[cur.i]
       IN IF outcome = "ok" \/ Caught(outcome)
          THEN LET r == RunToAwait(ListRemove(active_timers, t), cur.due, cur.i + 1,
                                   channels)
                   s == IF r.pc = "idle" THEN IdleScan
                        ELSE [pc |-> r.pc, at |-> cur.at, due |-> cur.due, i |-> r.i]
               IN /\ scan' = [scan EXCEPT ![run] = s]
                  /\ active_timers' = r.timers
                  /\ attempts' = CountSend(attempts, s)
                  /\ failures' = IF outcome = "ok" THEN failures
                                 ELSE [failures EXCEPT ![t.id] = @ + 1]
                  /\ UNCHANGED scanRaised
          ELSE /\ scan' = [scan EXCEPT ![run] = IdleScan]
               /\ failures' = [failures EXCEPT ![t.id] = @ + 1]
               /\ scanRaised' = TRUE
               /\ UNCHANGED <<active_timers, attempts>>
    /\ UNCHANGED <<now, zone, channels, created, response, prefVars, storeVars, ioVars>>

----------------------------------------------------------------------------
(* /timer and /alarm *)

\* the zero check written with < for ==: 0 hours 0 minutes passes
TimerIsZero_less(hours, minutes) == hours < 0 /\ minutes < 0

\* if hours == 0 and minutes == 0
TimerIsZero(hours, minutes) == hours = 0 /\ minutes = 0

\* the hours left out of the timedelta
TimerDelta_minutesOnly(hours, minutes) == minutes * SecPerMin

\* datetime.timedelta(hours=int(hours), minutes=int(minutes))
TimerDelta(hours, minutes) == hours * SecPerHour + minutes * SecPerMin

\* target_utc = datetime.datetime.now(datetime.timezone.utc) + delta
TimerTarget(at, hours, minutes) == at + TimerDelta(hours, minutes)

\* the rollover test written with < for <=: a request for the current time of
\* day stays on today
AlarmLocal_strict(now_local, hour, minute) ==
    LET target_local == ReplaceTime(now_local, hour, minute)
    IN IF target_local.wall < now_local.wall THEN PlusOneDay(target_local)
       ELSE target_local

\* if target_local <= now_local: target_local += datetime.timedelta(days=1)
AlarmLocal(now_local, hour, minute) ==
    LET target_local == ReplaceTime(now_local, hour, minute)
    IN IF target_local.wall <= now_local.wall THEN PlusOneDay(target_local)
       ELSE target_local

\* target_utc of alarm_cmd called at UTC instant at in zone z
AlarmTarget(z, at, hour, minute) == AsUtc(z, AlarmLocal(NowLocal(z, at), hour, minute))

\* the entry whose channel.send the tasks.loop coroutine is suspended in (0:
\* the coroutine is not running)
Awaited ==
    IF scan["loop"].pc = "sending" THEN scan["loop"].due[scan["loop"].i].id ELSE 0

\* the dict appended to active_timers; besides its identity it carries, for
\* the history, the entry that was being sent for when it was appended
NewEntry(id, time, channel, user, message, default) ==
    [id |-> id, time |-> time, channel_id |-> channel, user_id |-> user,
     message |-> MessageOr(message, default), during |-> Awaited]

\* an interaction is issued in a channel that exists
CanInteract(channel) == startup = "running" /\ channels[channel] # "None"

timer_cmd(hours, minutes, message, channel, user) ==
    /\ CanInteract(channel)
    /\ IF TimerIsZero(hours, minutes)
       THEN /\ response' = "TimerRejected"
            /\ UNCHANGED <<active_timers, created>>
       ELSE /\ Len(created) < MaxTimers
            /\ active_timers' = Append(active_timers,
                   NewEntry(Len(created) + 1, TimerTarget(now, hours, minutes), channel, user,
                            message, "timer!"))
            /\ created' = Append(created, active_timers'[Len(active_timers')])
            /\ response' = "TimerOK"
    /\ UNCHANGED <<now, zone, channels, scan, attempts, failures, scanRaised,
                   prefVars, storeVars, ioVars>>

alarm_cmd(hour, minute, message, channel, user) ==
    /\ CanInteract(channel)
    /\ Len(created) < MaxTimers
    /\ active_timers' = Append(active_timers,
           NewEntry(Len(created) + 1, AlarmTarget(zone, now, hour, minute), channel, user,
                    message, "wake up!"))
    /\ created' = Append(created, active_timers'[Len(active_timers')])
    /\ response' = "AlarmOK"
    /\ UNCHANGED <<now, zone, channels, scan, attempts, failures, scanRaised,
                   prefVars, storeVars, ioVars>>

----------------------------------------------------------------------------
(* The environment: the clock advances, a channel disappears *)

\* the instants the clock is moved to: around each due time ever scheduled
ClockTargets ==
    UNION {{created[k].time - 1, created[k].time} : k \in DOMAIN created}

Tick(to) ==
    /\ to > now
    /\ now' = to
    /\ UNCHANGED <<zone, channels, active_timers, created, scan, attempts, failures,
                   scanRaised, response, prefVars, storeVars, ioVars>>

ChannelDeleted(channel) ==
    /\ channels[channel] # "None"
    /\ channels' = [channels EXCEPT ![channel] = "None"]
    /\ UNCHANGED <<now, zone, active_timers, created, scan, attempts, failures,
                   scanRaised, response, prefVars, storeVars, ioVars>>

----------------------------------------------------------------------------
(* Python dicts: insertion-ordered sequences of <<key, value>> pairs with   *)
(* unique keys.                                                             *)

DictKeys(d) == {d[k][1] : k \in DOMAIN d}
DictHas(d, key) == key \in DictKeys(d)
DictIndex(d, key) == CHOOSE k \in DOMAIN d : d[k][1] = key
\* d.get(key, default)
DictGet(d, key, default) == IF DictHas(d, key) THEN d[DictIndex(d, key)][2] ELSE default
\* a key that is there taken out and put back at the end
DictSet_movesToEnd(d, key, value) ==
    Append(SelectSeq(d, LAMBDA kv : kv[1] # key), <<key, value>>)

\* d[key] = value: in place when the key is there, appended when it is not
DictSet(d, key, value) ==
    IF DictHas(d, key) THEN [d EXCEPT ![DictIndex(d, key)] = <<key, value>>]
    ELSE Append(d, <<key, value>>)
\* d.pop(key, None)
DictPop(d, key) == SelectSeq(d, LAMBDA kv : kv[1] # key)

----------------------------------------------------------------------------
(* json: a text is a sequence of tokens, so that a partly written file is  *)
(* a proper prefix of the text.                                            *)

Punct(c) == [k |-> "punct", s |-> c]
StrTok(x) == [k |-> "str", s |-> x]
BoolTok(b) == [k |-> "lit", s |-> IF b THEN "true" ELSE "false"]

\* json.dump of a value of the given type: "str", "bool", or a dict of them
RECURSIVE DumpValue(_, _)
RECURSIVE DumpMembers(_, _)
DumpValue(v, type) ==
    IF type = "str" THEN <<StrTok(v)>>
    ELSE IF type = "bool" THEN <<BoolTok(v)>>
    ELSE <<Punct("{")>> \o DumpMembers(v, type) \o <<Punct("}")>>
DumpMembers(d, type) ==
    IF d = <<>> THEN <<>>
    ELSE <<StrTok(d[1][1]), Punct(":")>>
         \o DumpValue(d[1][2], IF type = "dict of str" THEN "str"
                               ELSE IF type = "dict of bool" THEN "bool"
                               ELSE "dict of str")
         \o (IF Len(d) = 1 THEN <<>> ELSE <<Punct(",")>> \o DumpMembers(Tail(d), type))

DumpStrDict(d) == DumpValue(d, "dict of str")
DumpBoolDict(d) == DumpValue(d, "dict of bool")
DumpMemos(d) == DumpValue(d, "dict of dict of str")

\* json.dump(data, f, ensure_ascii=False, indent=2) of the document
JsonDump(data) ==
    <<Punct("{"),
      StrTok("nicknames"), Punct(":")>> \o DumpStrDict(DictGet(data, "nicknames", <<>>)) \o
    <<Punct(","), StrTok("greeting_prefs"), Punct(":")>>
        \o DumpBoolDict(DictGet(data, "greeting_prefs", <<>>)) \o
    <<Punct(","), StrTok("silent_prefs"), Punct(":")>>
        \o DumpBoolDict(DictGet(data, "silent_prefs", <<>>)) \o
    <<Punct(","), StrTok("memos"), Punct(":")>> \o DumpMemos(DictGet(data, "memos", <<>>)) \o
    <<Punct(","), StrTok("model_prefs"), Punct(":")>>
        \o DumpStrDict(DictGet(data, "model_prefs", <<>>)) \o
    <<Punct("}")>>

\* json.load: a recursive-descent parse; ok = FALSE is json.JSONDecodeError
ParseFail == [ok |-> FALSE, val |-> <<>>, rest |-> <<>>]
DropTokens(toks, n) == SubSeq(toks, n + 1, Len(toks))

RECURSIVE ParseValue(_)
RECURSIVE ParseMembers(_, _)
ParseValue(toks) ==
    IF toks = <<>> THEN ParseFail
    ELSE LET h == Head(toks)
         IN IF h.k = "str" THEN [ok |-> TRUE, val |-> h.s, rest |-> Tail(toks)]
            ELSE IF h.k = "lit" THEN [ok |-> TRUE, val |-> (h.s = "true"), rest |-> Tail(toks)]
            ELSE IF h # Punct("{") THEN ParseFail
            ELSE IF Len(toks) >= 2 /\ toks[2] = Punct("}")
                 THEN [ok |-> TRUE, val |-> <<>>, rest |-> DropTokens(toks, 2)]
                 ELSE ParseMembers(Tail(toks), <<>>)
ParseMembers(toks, acc) ==
    IF Len(toks) < 2 \/ toks[1].k # "str" \/ toks[2] # Punct(":") THEN ParseFail
    ELSE LET v == ParseValue(DropTokens(toks, 2))
             acc2 == DictSet(acc, toks[1].s, v.val)
         IN IF ~v.ok \/ v.rest = <<>> THEN ParseFail
            ELSE IF Head(v.rest) = Punct("}")
                 THEN [ok |-> TRUE, val |-> acc2, rest |-> Tail(v.rest)]
            ELSE IF Head(v.rest) = Punct(",") THEN ParseMembers(Tail(v.rest), acc2)
            ELSE ParseFail

\* kind is the Python type of the value parsed: "dict", "str" or "bool"
JsonLoads(toks) ==
    LET r == ParseValue(toks)
    IN IF r.ok /\ r.rest = <<>>
       THEN [ok |-> TRUE, val |-> r.val,
             kind |-> IF Head(toks).k = "str" THEN "str"
                      ELSE IF Head(toks).k = "lit" THEN "bool" ELSE "dict"]
       ELSE [ok |-> FALSE, val |-> <<>>, kind |-> "none"]

----------------------------------------------------------------------------
(* The files, load_data and atomic_write_json *)

DATA_FILE == "data.json"
Paths == {"data.json", "data.json.tmp"}

\* a path: whether os.path.exists finds it, whether open succeeds on it (it
\* raises OSError on a directory or without permission), and its content
Absent == [exists |-> FALSE, readable |-> FALSE, data |-> <<>>]
File(toks) == [exists |-> TRUE, readable |-> TRUE, data |-> toks]
Unreadable == [exists |-> TRUE, readable |-> FALSE, data |-> <<>>]

\* a byte that is not valid UTF-8: reading a file opened with
\* encoding="utf-8" that holds one raises UnicodeDecodeError
BadByte == [k |-> "byte", s |-> "0xff"]
DecodesAsUtf8(toks) == \A i \in DOMAIN toks : toks[i].k # "byte"

DEFAULT_DATA ==
    << <<"nicknames", <<>>>>, <<"greeting_prefs", <<>>>>, <<"silent_prefs", <<>>>>,
       <<"memos", <<>>>>, <<"model_prefs", <<>>>> >>

\* what a call returns: the exception it raises ("none" when it returns), and
\* the value returned with its Python type
Returned(kind, val) == [raised |-> "none", kind |-> kind, val |-> val]
Raised(exception) == [raised |-> exception, kind |-> "none", val |-> <<>>]

\* the parsed document not returned: every load falls through to the default
load_data_fallsThrough(files) == Returned("dict", DEFAULT_DATA)

\* load_data(): whatever json.load parsed from the file; DEFAULT_DATA.copy()
\* when the file is absent or open or json.load raised OSError or
\* json.JSONDecodeError.  Any other exception leaves the function.
load_data(files) ==
    LET f == files[DATA_FILE]
    IN IF ~f.exists THEN Returned("dict", DEFAULT_DATA)
       ELSE IF ~f.readable THEN Returned("dict", DEFAULT_DATA)
       ELSE IF ~DecodesAsUtf8(f.data) THEN Raised("UnicodeDecodeError")
       ELSE LET r == JsonLoads(f.data)
            IN IF r.ok THEN Returned(r.kind, r.val) ELSE Returned("dict", DEFAULT_DATA)

\* ShikakuUtsu.__init__: bot_data = load_data() and the five maps are
\* bot_data.get(name, {}); an exception of load_data, or the AttributeError
\* of .get on a value that is no dict, ends the construction
Construct(files) ==
    LET d == load_data(files)
        outcome == IF d.raised # "none" THEN d.raised
                   ELSE IF d.kind # "dict" THEN "AttributeError" ELSE "running"
        Map(name) == IF outcome = "running" THEN DictGet(d.val, name, <<>>) ELSE <<>>
    IN [startup |-> outcome,
        nicknames |-> Map("nicknames"), greeting_prefs |-> Map("greeting_prefs"),
        silent_prefs |-> Map("silent_prefs"), memos |-> Map("memos"),
        model_prefs |-> Map("model_prefs")]

\* the text written straight to the final path
TmpPath_inPlace(path) == path

\* tmp = path + ".tmp"
TmpPath(path) == IF path = "data.json" THEN "data.json.tmp" ELSE path

\* the assignment of memos left out of save_bot_data
BotData_memosNotAssigned ==
    << <<"nicknames", nicknames>>, <<"greeting_prefs", greeting_prefs>>,
       <<"silent_prefs", silent_prefs>>, <<"memos", <<>>>>,
       <<"model_prefs", model_prefs>> >>

\* self.bot_data after the five assignments of save_bot_data: its five keys
\* are the five maps themselves
BotData ==
    << <<"nicknames", nicknames>>, <<"greeting_prefs", greeting_prefs>>,
       <<"silent_prefs", silent_prefs>>, <<"memos", memos>>,
       <<"model_prefs", model_prefs>> >>

IdleSave ==
    [pc |-> "idle", ok |-> TRUE, prev |-> Absent, new |-> <<>>, reply |-> "none",
     failed |-> 0, user |-> 0]

\* save_bot_data is entered (the last statement of a mutating command); the
\* maps are already updated.  prev and new record, for the history, the file
\* as it was and the text to write; failed counts the saves of this process
\* that raised OSError; user is the user whose command called it.
BeginSave(files, data, reply, user) ==
    [pc |-> "open", ok |-> FALSE, prev |-> files[DATA_FILE], new |-> JsonDump(data),
     reply |-> reply, failed |-> save.failed, user |-> user]

\* with open(tmp, "w", encoding="utf-8") as f: the file is created or truncated
SaveOpen ==
    /\ save.pc = "open"
    /\ fs' = [fs EXCEPT ![TmpPath(DATA_FILE)] = File(<<>>)]
    /\ save' = [save EXCEPT !.pc = "writing"]
    /\ UNCHANGED <<schedVars, response, prefVars, ops, ioVars>>

\* the lengths a partly flushed text is cut at
CutPoints(n) == {1, n \div 2}

\* json.dump: part of the text has reached the file
SaveWrite(n) ==
    /\ save.pc = "writing"
    /\ n > Len(fs[TmpPath(DATA_FILE)].data)
    /\ n < Len(save.new)
    /\ fs' = [fs EXCEPT ![TmpPath(DATA_FILE)] = File(SubSeq(save.new, 1, n))]
    /\ UNCHANGED <<save, schedVars, response, prefVars, ops, ioVars>>

\* the with block is left: the whole text is in the file and it is closed
SaveClose ==
    /\ save.pc = "writing"
    /\ fs' = [fs EXCEPT ![TmpPath(DATA_FILE)] = File(save.new)]
    /\ save' = [save EXCEPT !.pc = "closed"]
    /\ UNCHANGED <<schedVars, response, prefVars, ops, ioVars>>

\* os.replace(tmp, path): atomic; save_bot_data and the command return
SaveReplace ==
    /\ save.pc = "closed"
    /\ fs' = [p \in Paths |->
                IF p = DATA_FILE THEN fs[TmpPath(DATA_FILE)]
                ELSE IF p = TmpPath(DATA_FILE) THEN Absent ELSE fs[p]]
    /\ save' = [save EXCEPT !.pc = "idle", !.ok = TRUE]
    /\ response' = save.reply
    /\ UNCHANGED <<schedVars, prefVars, ops, ioVars>>

\* the OSError not caught: it leaves save_bot_data and the command, whose
\* response is never sent
SaveFails_propagates ==
    /\ save.pc \in {"open", "writing", "closed"}
    /\ save' = [save EXCEPT !.pc = "idle", !.ok = FALSE, !.failed = @ + 1]
    /\ UNCHANGED <<response, fs, schedVars, prefVars, ops, ioVars>>

\* open, write, close or os.replace raises OSError: save_bot_data catches it
\* and prints; what was written stays in the temporary file
SaveFails ==
    /\ save.pc \in {"open", "writing", "closed"}
    /\ save' = [save EXCEPT !.pc = "idle", !.ok = FALSE, !.failed = @ + 1]
    /\ response' = save.reply
    /\ UNCHANGED <<fs, schedVars, prefVars, ops, ioVars>>

----------------------------------------------------------------------------
(* The preference commands.  Each updates a map and calls save_bot_data;   *)
(* its response is sent when save_bot_data has returned.                   *)

\* one key for every user
UserKey_sameForAll(user) == "1"

\* str(interaction.user.id)
UserKey(user) == ToString(user)

\* a command is dispatched: the event loop is free and the budget allows it
CanCommand == startup = "running" /\ save.pc = "idle" /\ ops < MaxOps

set_name_cmd(user, nickname) ==
    /\ CanCommand
    /\ nicknames' = DictSet(nicknames, UserKey(user), nickname)
    /\ UNCHANGED <<greeting_prefs, silent_prefs, memos, model_prefs>>
    /\ save' = BeginSave(fs, BotData', "NameSet", user)
    /\ ops' = ops + 1
    /\ UNCHANGED <<fs, schedVars, response, ioVars>>

set_greeting_cmd(user, mode) ==
    /\ CanCommand
    /\ greeting_prefs' = DictSet(greeting_prefs, UserKey(user), mode = "on")
    /\ UNCHANGED <<nicknames, silent_prefs, memos, model_prefs>>
    /\ save' = BeginSave(fs, BotData', "GreetingSet", user)
    /\ ops' = ops + 1
    /\ UNCHANGED <<fs, schedVars, response, ioVars>>

memo_add(user, keyword, content) ==
    /\ CanCommand
    /\ memos' = DictSet(memos, UserKey(user),
                        DictSet(DictGet(memos, UserKey(user), <<>>), keyword, content))
    /\ UNCHANGED <<nicknames, greeting_prefs, silent_prefs, model_prefs>>
    /\ save' = BeginSave(fs, BotData', "MemoAdded", user)
    /\ ops' = ops + 1
    /\ UNCHANGED <<fs, schedVars, response, ioVars>>

set_silent_cmd(user, mode) ==
    /\ CanCommand
    /\ silent_prefs' = DictSet(silent_prefs, UserKey(user), mode = "on")
    /\ UNCHANGED <<nicknames, greeting_prefs, memos, model_prefs>>
    /\ save' = BeginSave(fs, BotData', "SilentSet", user)
    /\ ops' = ops + 1
    /\ UNCHANGED <<fs, schedVars, response, ioVars>>

set_model_cmd(user, model) ==
    /\ CanCommand
    /\ model_prefs' = DictSet(model_prefs, UserKey(user), model)
    /\ UNCHANGED <<nicknames, greeting_prefs, silent_prefs, memos>>
    /\ save' = BeginSave(fs, BotData', "ModelSet", user)
    /\ ops' = ops + 1
    /\ UNCHANGED <<fs, schedVars, response, ioVars>>

\* the user's pending entries dropped with the settings
reset_my_settings_cmd_cancelsTimers(user) ==
    /\ CanCommand
    /\ nicknames' = DictPop(nicknames, UserKey(user))
    /\ greeting_prefs' = DictPop(greeting_prefs, UserKey(user))
    /\ silent_prefs' = DictPop(silent_prefs, UserKey(user))
    /\ model_prefs' = DictPop(model_prefs, UserKey(user))
    /\ UNCHANGED memos
    /\ save' = BeginSave(fs, BotData', "ResetDone", user)
    /\ ops' = ops + 1
    /\ active_timers' = SelectSeq(active_timers, LAMBDA t : t.user_id # user)
    /\ UNCHANGED <<fs, now, zone, channels, created, scan, attempts, failures, scanRaised,
                   response, ioVars>>

\* reset_my_settings: four pops (memos is not among them) and a save
reset_my_settings_cmd(user) ==
    /\ CanCommand
    /\ nicknames' = DictPop(nicknames, UserKey(user))
    /\ greeting_prefs' = DictPop(greeting_prefs, UserKey(user))
    /\ silent_prefs' = DictPop(silent_prefs, UserKey(user))
    /\ model_prefs' = DictPop(model_prefs, UserKey(user))
    /\ UNCHANGED memos
    /\ save' = BeginSave(fs, BotData', "ResetDone", user)
    /\ ops' = ops + 1
    /\ UNCHANGED <<fs, schedVars, response, ioVars>>

\* the del left out: the save and the answer only
memo_forget_keeps(user, keyword) ==
    /\ CanCommand
    /\ UNCHANGED prefVars
    /\ IF DictHas(memos, UserKey(user)) /\ DictHas(DictGet(memos, UserKey(user), <<>>), keyword)
       THEN save' = BeginSave(fs, BotData', "MemoForgotten", user) /\ UNCHANGED response
       ELSE response' = "MemoNeverKnown" /\ UNCHANGED save
    /\ ops' = ops + 1
    /\ UNCHANGED <<fs, schedVars, ioVars>>

\* memo forget: del and save when the user has the keyword, the negative
\* answer and nothing else when not
memo_forget(user, keyword) ==
    /\ CanCommand
    /\ UNCHANGED <<nicknames, greeting_prefs, silent_prefs, model_prefs>>
    /\ IF DictHas(memos, UserKey(user)) /\ DictHas(DictGet(memos, UserKey(user), <<>>), keyword)
       THEN /\ memos' = DictSet(memos, UserKey(user),
                                DictPop(DictGet(memos, UserKey(user), <<>>), keyword))
            /\ save' = BeginSave(fs, BotData', "MemoForgotten", user)
            /\ UNCHANGED response
       ELSE /\ response' = "MemoNeverKnown"
            /\ UNCHANGED <<memos, save>>
    /\ ops' = ops + 1
    /\ UNCHANGED <<fs, schedVars, ioVars>>

\* where an interaction comes from: in a guild or not (a direct message), and
\* in a guild whether the user is its owner and whether the user's
\* guild_permissions have manage_guild
Callers ==
    {[guild |-> g, owner |-> o, manage_guild |-> m] :
        g \in BOOLEAN, o \in BOOLEAN, m \in BOOLEAN} \
    {c \in [guild : {FALSE}, owner : BOOLEAN, manage_guild : BOOLEAN] :
        c.owner \/ c.manage_guild}

\* the guild alone taken for the right: every member passes
IsPrivileged_everyMember(caller) == caller.guild

\* is_owner or (perms and perms.manage_guild), where is_owner is
\* interaction.guild and user.id == guild.owner_id, and perms is None outside
\* a guild
IsPrivileged(caller) ==
    (caller.guild /\ caller.owner) \/ (caller.guild /\ caller.manage_guild)

\* memos.clear() left out
all_erase_cmd_keepsMemos(user, privileged) ==
    /\ CanCommand
    /\ IF ~privileged
       THEN /\ response' = "AdminOnly"
            /\ UNCHANGED <<prefVars, save>>
       ELSE /\ nicknames' = <<>>
            /\ greeting_prefs' = <<>>
            /\ silent_prefs' = <<>>
            /\ memos' = memos
            /\ model_prefs' = <<>>
            /\ save' = BeginSave(fs, BotData', "AllCleared", user)
            /\ UNCHANGED response
    /\ ops' = ops + 1
    /\ UNCHANGED <<fs, schedVars, ioVars>>

\* all_erase: privileged is is_owner or perms.manage_guild
all_erase_cmd(user, privileged) ==
    /\ CanCommand
    /\ IF ~privileged
       THEN /\ response' = "AdminOnly"
            /\ UNCHANGED <<prefVars, save>>
       ELSE /\ nicknames' = <<>>
            /\ greeting_prefs' = <<>>
            /\ silent_prefs' = <<>>
            /\ memos' = <<>>
            /\ model_prefs' = <<>>
            /\ save' = BeginSave(fs, BotData', "AllCleared", user)
            /\ UNCHANGED response
    /\ ops' = ops + 1
    /\ UNCHANGED <<fs, schedVars, ioVars>>

----------------------------------------------------------------------------
(* The read commands.  None is <<>>, a value x is <<x>>.                   *)

None == <<>>
Some(x) == <<x>>

NoNickname == "not remembered yet"
DefaultModel == "gemini-1.5-flash"

\* a read command is dispatched: the event loop is free
CanRead == startup = "running" /\ save.pc = "idle"

\* Python truth of an optional string: None and "" are false
Truthy(opt) == opt # None /\ opt[1] # ""

\* the four values my_status puts in its embed
StatusOf(user) ==
    [cmd |-> "my_status",
     nickname |-> DictGet(nicknames, UserKey(user), NoNickname),
     greeting_on |-> DictGet(greeting_prefs, UserKey(user), FALSE),
     silent_on |-> DictGet(silent_prefs, UserKey(user), FALSE),
     model_name |-> DictGet(model_prefs, UserKey(user), DefaultModel)]

my_status_cmd(user) ==
    /\ CanRead
    /\ shown' = StatusOf(user)
    /\ response' = "Status"
    /\ UNCHANGED <<schedVars, prefVars, storeVars, startup, final_reply>>

\* client.memos.get(user_id, {}).get(keyword)
MemoGet(user, keyword) ==
    LET user_memos == DictGet(memos, UserKey(user), <<>>)
    IN IF DictHas(user_memos, keyword) THEN Some(DictGet(user_memos, keyword, "")) ELSE None

\* memo show: `if content:` answers with the content, else "not known"
MemoShown(user, keyword) ==
    LET content == MemoGet(user, keyword)
    IN IF Truthy(content)
       THEN [cmd |-> "memo_show", user |-> user, keyword |-> keyword,
             found |-> TRUE, content |-> content[1]]
       ELSE [cmd |-> "memo_show", user |-> user, keyword |-> keyword,
             found |-> FALSE, content |-> ""]

memo_show(user, keyword) ==
    /\ CanRead
    /\ shown' = MemoShown(user, keyword)
    /\ response' = IF shown'.found THEN "MemoShown" ELSE "MemoUnknown"
    /\ UNCHANGED <<schedVars, prefVars, storeVars, startup, final_reply>>

\* memo list: the keys in insertion order, or "nothing yet"
MemoListed(user) ==
    LET user_memos == DictGet(memos, UserKey(user), <<>>)
    IN [cmd |-> "memo_list", user |-> user, empty |-> (user_memos = <<>>),
        keys |-> [k \in DOMAIN user_memos |-> user_memos[k][1]]]

memo_list(user) ==
    /\ CanRead
    /\ shown' = MemoListed(user)
    /\ response' = IF shown'.empty THEN "MemoNone" ELSE "MemoList"
    /\ UNCHANGED <<schedVars, prefVars, storeVars, startup, final_reply>>

----------------------------------------------------------------------------
(* memory_read *)

\* the five maps of the client
ClientMaps ==
    [nicknames |-> nicknames, greeting_prefs |-> greeting_prefs,
     silent_prefs |-> silent_prefs, memos |-> memos, model_prefs |-> model_prefs]

\* {uid: d.get(uid)} if uid in d else {}
OwnEntry(d, uid) == IF DictHas(d, uid) THEN << <<uid, DictGet(d, uid, <<>>)>> >> ELSE <<>>
\* {uid: d.get(uid, False)}
OwnFlag(d, uid) == << <<uid, DictGet(d, uid, FALSE)>> >>

\* len(text) > 1800
AttachLimit == 1800

\* a content too long for a message, and len of a text: the long content
\* counts AttachLimit + 1 characters, every other token one (the texts of the
\* model that do not hold the long content are shorter than the limit by far)
LongContent == "long"
RECURSIVE TextLength(_)
TextLength(text) ==
    IF text = <<>> THEN 0
    ELSE (IF Head(text) = StrTok(LongContent) THEN AttachLimit + 1 ELSE 1)
         + TextLength(Tail(text))

\* json.dumps(data) where data is {"scope": scope} updated with five maps
ReadDump(scope, maps) ==
    <<Punct("{"), StrTok("scope"), Punct(":"), StrTok(scope), Punct(",")>>
    \o Tail(JsonDump(<< <<"nicknames", maps.nicknames>>,
                        <<"greeting_prefs", maps.greeting_prefs>>,
                        <<"silent_prefs", maps.silent_prefs>>,
                        <<"memos", maps.memos>>,
                        <<"model_prefs", maps.model_prefs>> >>))

\* what the command sends, and to whom: the text, in the message or as a file
ReadOutput(user, caller, text) ==
    [cmd |-> "memory_read", user |-> user, caller |-> caller,
     attached |-> TextLength(text) > AttachLimit, text |-> text]

\* the own-entry test left out for memos: the whole map is shown
MemoryRead_allMemos(user, caller, maps) ==
    LET uid == UserKey(user)
    IN IF IsPrivileged(caller) THEN ReadOutput(user, caller, ReadDump("all", maps))
       ELSE ReadOutput(user, caller, ReadDump("self",
                [nicknames |-> OwnEntry(maps.nicknames, uid),
                 greeting_prefs |-> OwnFlag(maps.greeting_prefs, uid),
                 silent_prefs |-> OwnFlag(maps.silent_prefs, uid),
                 memos |-> maps.memos,
                 model_prefs |-> OwnEntry(maps.model_prefs, uid)]))

\* memory_read for this user and caller on a client that holds these maps:
\* can_view_all gives scope "all" and bot_data (whose five keys are the five
\* maps), otherwise scope "self" and the user's own entries
MemoryRead(user, caller, maps) ==
    LET uid == UserKey(user)
    IN IF IsPrivileged(caller) THEN ReadOutput(user, caller, ReadDump("all", maps))
       ELSE ReadOutput(user, caller, ReadDump("self",
                [nicknames |-> OwnEntry(maps.nicknames, uid),
                 greeting_prefs |-> OwnFlag(maps.greeting_prefs, uid),
                 silent_prefs |-> OwnFlag(maps.silent_prefs, uid),
                 memos |-> OwnEntry(maps.memos, uid),
                 model_prefs |-> OwnEntry(maps.model_prefs, uid)]))

memory_read_cmd(user, caller) ==
    /\ CanRead
    /\ shown' = MemoryRead(user, caller, ClientMaps)
    /\ response' = IF shown'.attached THEN "MemoryAttached" ELSE "MemoryShown"
    /\ UNCHANGED <<schedVars, prefVars, storeVars, startup, final_reply>>

----------------------------------------------------------------------------
(* reply_helper of on_message.  A text is a sequence of characters.        *)

\* "@silent\n"
SilentMarker == <<"@", "s", "i", "l", "e", "n", "t", "\n">>
\* the ideographic comma U+3001 of f"{nickname}、{final_reply}"
IdeographicComma == <<"U+3001">>

\* the characters of the names the model uses
Characters(name) ==
    CASE name = "Aki" -> <<"A", "k", "i">>
      [] name = "Bob" -> <<"B", "o", "b">>
      [] name = "@silent\nAki" -> SilentMarker \o <<"A", "k", "i">>
      [] name = "" -> <<>>

\* str.startswith
StartsWith(text, prefix) ==
    Len(text) >= Len(prefix) /\ SubSeq(text, 1, Len(prefix)) = prefix

\* the stored nickname not looked up: the display name always
ComposeReply_ignoresNickname(user, display_name, reply_text) ==
    LET greeted == IF DictGet(greeting_prefs, UserKey(user), FALSE)
                   THEN Characters(display_name) \o IdeographicComma \o reply_text
                   ELSE reply_text
    IN IF DictGet(silent_prefs, UserKey(user), FALSE) /\ ~StartsWith(greeted, SilentMarker)
       THEN SilentMarker \o greeted
       ELSE greeted

\* final_reply of reply_helper(reply_text) for a message of the user
ComposeReply(user, display_name, reply_text) ==
    LET greeted == IF DictGet(greeting_prefs, UserKey(user), FALSE)
                   THEN Characters(DictGet(nicknames, UserKey(user), display_name))
                        \o IdeographicComma \o reply_text
                   ELSE reply_text
    IN IF DictGet(silent_prefs, UserKey(user), FALSE) /\ ~StartsWith(greeted, SilentMarker)
       THEN SilentMarker \o greeted
       ELSE greeted

\* the reply is composed and passed to message.channel.send, whose failure
\* is caught and printed
reply_helper(user, display_name, reply_text) ==
    /\ startup = "running" /\ save.pc = "idle"
    /\ final_reply' = ComposeReply(user, display_name, reply_text)
    /\ UNCHANGED <<schedVars, response, prefVars, storeVars, startup, shown>>

\* the maps not read again: the new process holds what the old one held
Restart_keepsMemory ==
    /\ active_timers' = <<>>
    /\ scan' = [r \in Runs |-> IdleScan]
    /\ save' = [save EXCEPT !.pc = "idle", !.reply = "none", !.failed = 0,
                            !.ok = (save.pc = "idle" /\ save.ok)]
    /\ response' = "none"
    /\ UNCHANGED <<now, zone, channels, created, attempts, failures, scanRaised, fs, ops,
                   prefVars, ioVars>>

\* The process dies (at any point, a save included) and is started again:
\* ShikakuUtsu.__init__ reads the maps from load_data(), active_timers is empty
Restart ==
    /\ LET client == Construct(fs)
       IN /\ startup' = client.startup
          /\ nicknames' = client.nicknames
          /\ greeting_prefs' = client.greeting_prefs
          /\ silent_prefs' = client.silent_prefs
          /\ memos' = client.memos
          /\ model_prefs' = client.model_prefs
    /\ active_timers' = <<>>
    /\ scan' = [r \in Runs |-> IdleScan]
    /\ save' = [save EXCEPT !.pc = "idle", !.reply = "none", !.failed = 0,
                            !.ok = (save.pc = "idle" /\ save.ok)]
    /\ response' = "none"
    /\ UNCHANGED <<now, zone, channels, created, attempts, failures, scanRaised, fs, ops,
                   final_reply, shown>>

----------------------------------------------------------------------------
(* Initial states and specifications *)

\* the instant the process starts at: 12:00:30 UTC of day 2
StartInstant == 2 * SecPerDay + 12 * SecPerHour + 30

EmptyCounts == [k \in 1..MaxTimers |-> 0]

InitSched(z, at) ==
    /\ now = at
    /\ zone = z
    /\ channels = [c \in ChannelIds |-> IF c = 1 THEN "TextChannel" ELSE "VoiceChannel"]
    /\ active_timers = <<>>
    /\ created = <<>>
    /\ scan = [r \in Runs |-> IdleScan]
    /\ attempts = EmptyCounts
    /\ failures = EmptyCounts
    /\ scanRaised = FALSE
    /\ response = "none"

NothingShown == [cmd |-> "none"]

\* the process has started on the given files: the maps are those of load_data()
InitStore(files) ==
    /\ fs = files
    /\ save = [IdleSave EXCEPT !.prev = files[DATA_FILE], !.new = files[DATA_FILE].data]
    /\ ops = 0
    /\ LET client == Construct(files)
       IN /\ startup = client.startup
          /\ nicknames = client.nicknames
          /\ greeting_prefs = client.greeting_prefs
          /\ silent_prefs = client.silent_prefs
          /\ memos = client.memos
          /\ model_prefs = client.model_prefs
    /\ final_reply = <<>>
    /\ shown = NothingShown

NoFiles == [p \in Paths |-> Absent]

\* a document a previous run of the bot has saved
SampleData ==
    << <<"nicknames", << <<"1", "Aki">> >> >>,
       <<"greeting_prefs", << <<"1", TRUE>>, <<"2", FALSE>> >> >>,
       <<"silent_prefs", << <<"2", TRUE>> >> >>,
       <<"memos", << <<"2", << <<"k", "v">>, <<"j", "">> >> >> >> >>,
       <<"model_prefs", << <<"1", "gemini-1.5-pro">> >> >> >>

SampleFiles == [p \in Paths |-> IF p = DATA_FILE THEN File(JsonDump(SampleData)) ELSE Absent]

\* the requests the scheduler is driven with: <<hours, minutes>> of /timer,
\* <<hour, minute>> of /alarm (21:00:30 is the local time at StartInstant),
\* and where and with which message they are issued
TimerRequests == {<<0, 0>>, <<0, 1>>, <<1, 30>>}
AlarmRequests == {<<21, 0>>, <<21, 1>>}
Interactions == {[channel |-> 1, message |-> <<>>],
                 [channel |-> 2, message |-> <<"hi">>]}

Init == InitSched(DefaultZone, StartInstant) /\ InitStore(NoFiles)

Next ==
    \/ \E q \in TimerRequests, x \in Interactions :
           timer_cmd(q[1], q[2], x.message, x.channel, 1)
    \/ \E q \in AlarmRequests, x \in Interactions :
           alarm_cmd(q[1], q[2], x.message, x.channel, 1)
    \/ ScanStart("loop")
    \/ \E o \in SendOutcomes : SendReturns("loop", o)
    \/ \E to \in ClockTargets : Tick(to)
    \/ ChannelDeleted(1)

Spec == Init /\ [][Next]_vars

\* The scheduler with its scheduling stated: tasks.loop starts check_timers
\* again every 5 seconds, a channel.send that was awaited returns or raises,
\* and the clock goes on
Fairness ==
    /\ WF_vars(ScanStart("loop"))
    /\ WF_vars(\E o \in SendOutcomes : SendReturns("loop", o))
    /\ WF_vars(\E to \in ClockTargets : Tick(to))

\* the requests the fair scheduler is driven with: a one-minute timer from a
\* text channel or a voice channel, and an alarm for 21:00
NextLive ==
    \/ \E x \in Interactions : timer_cmd(0, 1, x.message, x.channel, 1)
    \/ alarm_cmd(21, 0, <<>>, 1, 1)
    \/ ScanStart("loop")
    \/ \E o \in SendOutcomes : SendReturns("loop", o)
    \/ \E to \in ClockTargets : Tick(to)
    \/ ChannelDeleted(1)

SpecLive == Init /\ [][NextLive]_vars /\ Fairness

\* The durable store on its own: preference commands, the steps of a save,
\* and restarts
Nicknames == {"Aki"}
Keywords == {"k"}
Contents == {"", "v"}

InitStoreSpec ==
    /\ InitSched(DefaultZone, StartInstant)
    /\ \E files \in {NoFiles, SampleFiles} : InitStore(files)

NextStore ==
    \/ \E u \in Users, n \in Nicknames : set_name_cmd(u, n)
    \/ \E u \in Users, mode \in {"on", "off"} : set_greeting_cmd(u, mode)
    \/ \E u \in Users, k \in Keywords, c \in Contents : memo_add(u, k, c)
    \/ SaveOpen
    \/ \E n \in CutPoints(Len(save.new)) : SaveWrite(n)
    \/ SaveClose
    \/ SaveReplace
    \/ SaveFails
    \/ Restart

SpecStore == InitStoreSpec /\ [][NextStore]_vars

\* The store started on a data.json the bot did not write or cannot use
OnlyDataFile(f) == [p \in Paths |-> IF p = DATA_FILE THEN f ELSE Absent]
SampleText == JsonDump(SampleData)
LoadCases ==
    {Absent, Unreadable,
     File(<<>>),                                              \* empty file
     File(SubSeq(SampleText, 1, Len(SampleText) \div 2)),     \* cut short
     File(<<Punct("}")>>),                                    \* not JSON
     File(<<BadByte>>),                                       \* not UTF-8
     File(SubSeq(SampleText, 1, 3) \o <<BadByte>>),
     File(<<StrTok("v")>>),                                   \* JSON, not an object
     File(<<Punct("{"), Punct("}")>>),                        \* an object without keys
     File(SampleText)}

InitLoad ==
    /\ InitSched(DefaultZone, StartInstant)
    /\ \E f \in LoadCases : InitStore(OnlyDataFile(f))

SpecLoad == InitLoad /\ [][NextStore]_vars

\* The preference repository: every preference command with its save, and
\* the reads of the memos
Models == {"gemini-1.5-pro"}

\* the users who issue the commands
Actors == {2}

NextPrefs ==
    \/ \E u \in Actors, n \in Nicknames : set_name_cmd(u, n)
    \/ \E u \in Actors, mode \in {"on", "off"} : set_greeting_cmd(u, mode)
    \/ \E u \in Actors, mode \in {"on", "off"} : set_silent_cmd(u, mode)
    \/ \E u \in Actors, m \in Models : set_model_cmd(u, m)
    \/ \E u \in Actors : reset_my_settings_cmd(u)
    \/ \E u \in Actors, k \in Keywords, c \in Contents : memo_add(u, k, c)
    \/ \E u \in Actors, k \in Keywords : memo_forget(u, k)
    \/ \E u \in Actors, caller \in Callers : all_erase_cmd(u, IsPrivileged(caller))
    \/ \E u \in Actors, k \in Keywords : memo_show(u, k)
    \/ \E u \in Actors : memo_list(u)
    \/ SaveOpen
    \/ SaveClose
    \/ SaveReplace
    \/ SaveFails

SpecPrefs == InitStoreSpec /\ [][NextPrefs]_vars

\* Replies: reply_helper and my_status on the nickname and the flags a
\* document holds
Hello == <<"h", "e", "l", "l", "o">>
BaseTexts ==
    {<<>>, Hello, SilentMarker, SilentMarker \o Hello,
     SubSeq(SilentMarker, 1, 7) \o Hello,
     <<"A", "k", "i">> \o IdeographicComma \o Hello}
ReplyNicknames == {"Aki", "@silent\nAki", ""}
DisplayNames == {"Bob"}

\* the documents the store may hold for user 1 (user 2 has no entry):
\* every combination of a nickname, a greeting flag and a silent flag, each
\* absent or set
OptionalEntry(values) == {<<>>} \cup {<< <<"1", v>> >> : v \in values}
ReplyDocuments ==
    {<< <<"nicknames", n>>, <<"greeting_prefs", g>>, <<"silent_prefs", q>>,
        <<"memos", <<>>>>, <<"model_prefs", <<>>>> >> :
        n \in OptionalEntry(ReplyNicknames),
        g \in OptionalEntry(BOOLEAN), q \in OptionalEntry(BOOLEAN)}

InitReply ==
    /\ InitSched(DefaultZone, StartInstant)
    /\ \E doc \in ReplyDocuments : InitStore(OnlyDataFile(File(JsonDump(doc))))

NextReply ==
    \/ \E u \in Users, d \in DisplayNames, b \in BaseTexts : reply_helper(u, d, b)
    \/ \E u \in Users : my_status_cmd(u)

SpecReply == InitReply /\ [][NextReply]_vars

\* Restarts: a process that holds pending entries and preference updates,
\* some saved, some not, dies and is started again
NextRestart ==
    \/ \E u \in Actors, n \in Nicknames : set_name_cmd(u, n)
    \/ \E u \in Actors, k \in Keywords, c \in Contents : memo_add(u, k, c)
    \/ timer_cmd(0, 1, <<>>, 1, 1)
    \/ SaveOpen
    \/ \E n \in CutPoints(Len(save.new)) : SaveWrite(n)
    \/ SaveClose
    \/ SaveReplace
    \/ SaveFails
    \/ Restart

SpecRestart == InitStoreSpec /\ [][NextRestart]_vars

\* The scheduler and the preference repository side by side: a store that
\* holds a document, one notification set by /timer or by /alarm, and every
\* preference command.  Commands and check_timers run on one event loop and
\* save_bot_data does not await, so a command or a step of the scan starts
\* only when no save is under way.
InitBoth == InitSched(DefaultZone, StartInstant) /\ InitStore(SampleFiles)

NextBoth ==
    \/ \E u \in Actors, n \in Nicknames : set_name_cmd(u, n)
    \/ \E u \in Actors : set_greeting_cmd(u, "on")
    \/ \E u \in Actors : set_silent_cmd(u, "off")
    \/ \E u \in Actors, m \in Models : set_model_cmd(u, m)
    \/ \E u \in Actors : reset_my_settings_cmd(u)
    \/ \E u \in Actors, k \in Keywords : memo_add(u, k, "v")
    \/ \E u \in Actors, k \in Keywords : memo_forget(u, k)
    \/ \E u \in Actors, caller \in Callers : all_erase_cmd(u, IsPrivileged(caller))
    \/ SaveOpen
    \/ SaveClose
    \/ SaveReplace
    \/ SaveFails
    \/ save.pc = "idle" /\ created = <<>> /\ \E u \in Actors : timer_cmd(0, 1, <<>>, 1, u)
    \/ save.pc = "idle" /\ created = <<>> /\ \E u \in Actors : alarm_cmd(21, 1, <<>>, 1, u)
    \/ save.pc = "idle" /\ ScanStart("loop")
    \/ save.pc = "idle" /\ \E o \in {"ok", "HTTPException"} : SendReturns("loop", o)
    \/ \E to \in ClockTargets : Tick(to)

SpecBoth == InitBoth /\ [][NextBoth]_vars

\* The memos of one user with several keywords
MemoKeywords == {"j", "k", "m"}

NextMemo ==
    \/ \E u \in Actors, k \in MemoKeywords, c \in Contents : memo_add(u, k, c)
    \/ \E u \in Actors, k \in MemoKeywords : memo_forget(u, k)
    \/ \E u \in Actors : memo_list(u)
    \/ SaveOpen
    \/ SaveClose
    \/ SaveReplace
    \/ SaveFails

SpecMemo == InitStoreSpec /\ [][NextMemo]_vars

\* Two users who both issue per-user commands, on a store that holds data
\* of both
NextUsers ==
    \/ \E u \in Users, n \in Nicknames : set_name_cmd(u, n)
    \/ \E u \in Users : set_greeting_cmd(u, "on")
    \/ \E u \in Users : set_silent_cmd(u, "on")
    \/ \E u \in Users, m \in Models : set_model_cmd(u, m)
    \/ \E u \in Users, k \in Keywords : memo_add(u, k, "w")
    \/ \E u \in Users, k \in Keywords : memo_forget(u, k)
    \/ \E u \in Users : reset_my_settings_cmd(u)
    \/ SaveOpen
    \/ SaveClose
    \/ SaveReplace
    \/ SaveFails

SpecUsers == InitBoth /\ [][NextUsers]_vars

\* memory_read on the stores two users can have: for each user and each
\* map, no entry (<<>>) or an entry (<<value>>)
ReadEntries ==
    [nicknames : {<<>>, <<"Aki">>},
     greeting_prefs : {<<>>, <<TRUE>>},
     silent_prefs : {<<>>, <<FALSE>>},
     memos : {<<>>, << << <<"k", "v">> >> >>, << << <<"k", LongContent>> >> >>},
     model_prefs : {<<>>, <<"gemini-1.5-pro">>}]

\* the maps in which the users have these entries
EntryOf(entries, user, name) ==
    IF entries[user][name] = <<>> THEN <<>>
    ELSE << <<ToString(user), entries[user][name][1]>> >>
StoreOf(entries) ==
    [name \in {"nicknames", "greeting_prefs", "silent_prefs", "memos", "model_prefs"} |->
        EntryOf(entries, 1, name) \o EntryOf(entries, 2, name)]
DocumentOf(maps) ==
    << <<"nicknames", maps.nicknames>>, <<"greeting_prefs", maps.greeting_prefs>>,
       <<"silent_prefs", maps.silent_prefs>>, <<"memos", maps.memos>>,
       <<"model_prefs", maps.model_prefs>> >>

InitRead ==
    /\ InitSched(DefaultZone, StartInstant)
    /\ \E entries \in [Users -> ReadEntries] :
           InitStore(OnlyDataFile(File(JsonDump(DocumentOf(StoreOf(entries))))))

NextRead == \E u \in Users, caller \in Callers : memory_read_cmd(u, caller)

SpecRead == InitRead /\ [][NextRead]_vars

----------------------------------------------------------------------------
(* Further specifications of the scheduler *)

\* check_timers re-entered: besides the tasks.loop coroutine, a second
\* coroutine runs check_timers (Loop.__call__)
NextReentrant ==
    \/ Next
    \/ ScanStart("direct")
    \/ \E o \in SendOutcomes : SendReturns("direct", o)

SpecReentrant == Init /\ [][NextReentrant]_vars

\* /timer on its own, over a wider range of requests
MaxHours == 2
TimerMinutes == {0, 1, 30, 59}
TimerStartInstants == {StartInstant, StartInstant + 11 * SecPerHour + 59 * SecPerMin}

InitTimer ==
    /\ \E at \in TimerStartInstants : InitSched(DefaultZone, at)
    /\ \E files \in {NoFiles, SampleFiles} : InitStore(files)

NextTimer ==
    \E h \in 0..MaxHours, m \in TimerMinutes, x \in Interactions :
        timer_cmd(h, m, x.message, x.channel, 1)

SpecTimer == InitTimer /\ [][NextTimer]_vars

\* /alarm on its own: one request, in every zone, at instants around the
\* local midnights and the offset transitions
AlarmHours == 0..23
AlarmMinutes == {0, 1, 30, 59}
AlarmStartInstants ==
    {2 * SecPerDay + h * SecPerHour + m * SecPerMin + e :
        h \in {6, 7, 15, 29, 30, 31, 32, 44}, m \in {0, 30}, e \in {0, 1}}

InitAlarm ==
    /\ \E z \in Zones, at \in AlarmStartInstants : InitSched(z, at)
    /\ InitStore(NoFiles)

NextAlarm ==
    /\ created = <<>>
    /\ \E h \in AlarmHours, m \in AlarmMinutes : alarm_cmd(h, m, <<>>, 1, 1)

SpecAlarm == InitAlarm /\ [][NextAlarm]_vars

----------------------------------------------------------------------------
(* Properties of the periodic scan *)

PendingIn(timers, id) == \E k \in DOMAIN timers : timers[k].id = id
Pending(id) == PendingIn(active_timers, id)

\* a step of the tasks.loop coroutine, the list of entries its run found due
\* and the instant it compared them with
LoopStep == ScanStart("loop") \/ \E o \in SendOutcomes : SendReturns("loop", o)
LoopDue == IF scan["loop"].pc = "idle" THEN DueList(active_timers, now) ELSE scan["loop"].due
LoopAt == IF scan["loop"].pc = "idle" THEN now ELSE scan["loop"].at
LoopReturns == LoopStep /\ scan'["loop"].pc = "idle"

\* C1: when a scan returns, every entry it found due (due time <= now) has
\* been delivered exactly once and is absent from active_timers, and no
\* entry is ever delivered a second time by further scans.
C1_DueFiredOnceAndGone ==
    /\ [](\A id \in 1..MaxTimers : attempts[id] <= 1)
    /\ [][LoopReturns =>
            \A k \in DOMAIN LoopDue :
                attempts'[LoopDue[k].id] = 1 /\ ~PendingIn(active_timers', LoopDue[k].id)]_vars

\* C2: with check_timers re-entered while a run is suspended in channel.send,
\* no entry is sent for more than once in total.
C2_NoDoubleFireOnReentry == \A id \in 1..MaxTimers : attempts[id] <= 1

\* C3: a step of a scan leaves every entry whose due time is after the scan's
\* now in active_timers, in place and with the same fields, and makes no send
\* for it.
NotDue(timers, at) == SelectSeq(timers, LAMBDA t : t.time > at)
C3_NotDueUntouched ==
    [][LoopStep =>
        /\ NotDue(active_timers', LoopAt) = NotDue(active_timers, LoopAt)
        /\ \A k \in DOMAIN active_timers :
               active_timers[k].time > LoopAt =>
                   attempts'[active_timers[k].id] = attempts[active_timers[k].id]]_vars

\* a scan is suspended in a send while an entry that was not due is pending
C3_Witness ==
    /\ scan["loop"].pc = "sending"
    /\ \E k \in DOMAIN active_timers :
           /\ active_timers[k].time > scan["loop"].at
           /\ active_timers[k].id < scan["loop"].due[scan["loop"].i].id

\* C4: when a send of a scan has raised, the scan still returns normally and
\* by then every entry it found due (the failed one and every other one) has
\* been sent for exactly once and is absent from active_timers.
C4_FailureIsolated ==
    [][(LoopReturns /\ \E k \in DOMAIN LoopDue : failures'[LoopDue[k].id] > 0) =>
            /\ ~scanRaised'
            /\ \A k \in DOMAIN LoopDue :
                   attempts'[LoopDue[k].id] = 1 /\ ~PendingIn(active_timers', LoopDue[k].id)]_vars

\* C5: a scan removes an entry from active_timers only after a send has been
\* attempted for it.
C5_RemovedOnlyAfterSend ==
    [][LoopStep =>
        \A k \in DOMAIN active_timers :
            ~PendingIn(active_timers', active_timers[k].id) => attempts'[active_timers[k].id] >= 1]_vars

----------------------------------------------------------------------------
(* Properties of /timer and /alarm *)

\* C6: /timer with hours = 0 and minutes = 0 answers with the rejection and
\* changes neither active_timers nor any of the five maps (nor anything else
\* but the response).
C6_ZeroTimerRejected ==
    [][\A x \in Interactions :
           timer_cmd(0, 0, x.message, x.channel, 1) =>
               /\ response' = "TimerRejected"
               /\ UNCHANGED <<active_timers, created, prefVars, fs>>]_vars

\* the rejection has been given while an entry was pending and the maps held data
C6_Witness ==
    /\ response = "TimerRejected"
    /\ Len(active_timers) = 1
    /\ nicknames # <<>> /\ memos # <<>>

LocalDate(z, u) == NowLocal(z, u).wall \div SecPerDay
LocalTimeOfDay(z, u) == NowLocal(z, u).wall % SecPerDay

\* the first instant after `at` whose wall clock in zone z reads tod
OccurrencesAfter(z, at, tod) ==
    {u \in {d * SecPerDay + tod - off :
                d \in (LocalDate(z, at) - 1)..(LocalDate(z, at) + 2),
                off \in {z.off1, z.off2}} :
        u > at /\ LocalTimeOfDay(z, u) = tod}
NextOccurrence(z, at, tod) ==
    CHOOSE u \in OccurrencesAfter(z, at, tod) :
        \A v \in OccurrencesAfter(z, at, tod) : u <= v

\* what C8 states of a request hour:minute made at instant `at` and answered
\* with an entry due at `due`
NextOccurrenceClaim(z, at, hour, minute, due) ==
    LET tod == hour * SecPerHour + minute * SecPerMin
    IN /\ due > at
       /\ OccurrencesAfter(z, at, tod) # {}
       /\ due = NextOccurrence(z, at, tod)
       /\ LocalDate(z, due) <= LocalDate(z, at) + 1
       /\ (tod <= LocalTimeOfDay(z, at) =>
               LocalDate(z, due) = LocalDate(z, at) + 1 /\ LocalTimeOfDay(z, due) = tod)

\* C8 as stated: for every now and every alarm request the entry's due time
\* is the next occurrence of hour:minute:00 in the configured zone.
C8_AlarmNextOccurrence ==
    [][\A h \in AlarmHours, m \in AlarmMinutes :
           alarm_cmd(h, m, <<>>, 1, 1) =>
               NextOccurrenceClaim(zone, now, h, m,
                                   active_timers'[Len(active_timers')].time)]_vars

\* C8 as amended: the due time is always strictly after now and at most one
\* day and the size of the zone's offset change after it; and when the zone's
\* UTC offset is the same at now and at the due time (always, in a zone
\* without transitions such as the default Asia/Tokyo) it is the next
\* occurrence of hour:minute:00.
C8_AlarmNextOccurrenceSameOffset ==
    [][\A h \in AlarmHours, m \in AlarmMinutes :
           alarm_cmd(h, m, <<>>, 1, 1) =>
               LET due == active_timers'[Len(active_timers')].time
               IN /\ due > now
                  /\ due - now <= SecPerDay + Max(zone.off1 - zone.off2,
                                                  zone.off2 - zone.off1)
                  /\ (UtcOffsetAt(zone, now) = UtcOffsetAt(zone, due) =>
                          NextOccurrenceClaim(zone, now, h, m, due))]_vars

\* an alarm for exactly the current time of day: it is due a day later
C8_Witness ==
    /\ Len(active_timers) = 1
    /\ active_timers[1].time = now + SecPerDay
    /\ zone = Tokyo

----------------------------------------------------------------------------
(* Properties of the durable store *)

\* C9: at every point of a save, and after a crash at any of its steps, the
\* final path holds the file as it was before the save or the complete new
\* text, and whatever it holds parses: never a partly written document.
C9_FinalPathNeverPartial ==
    LET f == fs[DATA_FILE]
    IN /\ f = save.prev \/ f = File(save.new)
       /\ f.exists => JsonLoads(f.data).ok

\* a save is under way: part of the new text is in the temporary file while
\* the final path still holds the previous, different document
C9_Witness ==
    /\ save.pc = "writing"
    /\ Len(fs[TmpPath(DATA_FILE)].data) \in 1..(Len(save.new) - 1)
    /\ fs[DATA_FILE].exists
    /\ fs[DATA_FILE] # File(save.new)

\* save_bot_data has run to its end for the last command (save.reply names
\* the command) and has written the file
SaveSucceeded == save.pc = "idle" /\ save.ok /\ save.reply # "none"

\* C10: after a save that succeeded, the final path holds the text of the
\* document saved and load_data returns a document equal to it.
C10_SaveLoadRoundTrip ==
    SaveSucceeded =>
        /\ fs[DATA_FILE] = File(save.new)
        /\ load_data(fs) = Returned("dict", BotData)

\* a document with a nickname, a flag and a memo has been saved
C10_Witness ==
    /\ SaveSucceeded /\ ops = MaxOps
    /\ response = "MemoAdded"
    /\ nicknames # <<>> /\ greeting_prefs # <<>> /\ silent_prefs # <<>>
    /\ \E k \in DOMAIN memos : Len(memos[k][2]) >= 2

----------------------------------------------------------------------------
(* Properties of load_data and of the preference commands *)

\* data.json is absent, cannot be opened, or does not hold a JSON text
Unusable(f) ==
    ~f.exists \/ ~f.readable \/ ~DecodesAsUtf8(f.data) \/ ~JsonLoads(f.data).ok

\* C11: whenever data.json is absent, unreadable or corrupt, load_data returns
\* the default document of five empty maps and raises nothing, so that the
\* process that loaded it is running.
C11_LoadFallsBackToDefault ==
    Unusable(fs[DATA_FILE]) =>
        /\ load_data(fs) = Returned("dict", DEFAULT_DATA)
        /\ startup = "running"

\* C12: when the disk write of a command's save fails, nothing is raised:
\* the command sends its normal answer, the maps keep the command's update
\* (the document that was to be written is the one in memory), and data.json
\* stays the complete document it held before.
C12_SaveFailureNotPropagated ==
    [][SaveFails =>
        /\ response' = save.reply
        /\ startup' = "running"
        /\ UNCHANGED prefVars
        /\ JsonDump(BotData') = save.new
        /\ fs'[DATA_FILE] = save.prev
        /\ (save.prev.exists => JsonLoads(save.prev.data).ok)]_vars

\* the save of a memo add has failed: the memo is in memory and not on disk
C12_Witness ==
    /\ save.pc = "idle" /\ ~save.ok /\ save.failed = 1
    /\ response = "MemoAdded"
    /\ memos # Construct(fs).memos
    /\ fs[DATA_FILE] = File(SampleText)

\* the five maps a process started on these files would hold
Persisted(files) == [name \in {"nicknames", "greeting_prefs", "silent_prefs",
                                "memos", "model_prefs"} |->
                        DictGet(JsonLoads(files[DATA_FILE].data).val, name, <<>>)]
InMemory ==
    [name \in {"nicknames", "greeting_prefs", "silent_prefs", "memos", "model_prefs"} |->
        IF name = "nicknames" THEN nicknames
        ELSE IF name = "greeting_prefs" THEN greeting_prefs
        ELSE IF name = "silent_prefs" THEN silent_prefs
        ELSE IF name = "memos" THEN memos ELSE model_prefs]

\* C13: whenever the save of the most recent saving command succeeded, the
\* five maps of data.json equal the five maps in memory, whatever commands
\* came before and whether or not their saves failed.
C13_PersistedEqualsMemory ==
    SaveSucceeded =>
        /\ fs[DATA_FILE].exists /\ JsonLoads(fs[DATA_FILE].data).ok
        /\ Persisted(fs) = InMemory

\* set_name whose save failed, then set_silent whose save succeeded: the
\* nickname is in data.json
C13_Witness ==
    /\ SaveSucceeded /\ save.failed = 1 /\ ops = 2
    /\ response = "SilentSet"
    /\ DictHas(Persisted(fs)["nicknames"], "2")

\* the documented defaults of the reads for a user
DefaultStatus ==
    [cmd |-> "my_status", nickname |-> NoNickname, greeting_on |-> FALSE,
     silent_on |-> FALSE, model_name |-> DefaultModel]
ReadsDefault(user) ==
    /\ StatusOf(user) = DefaultStatus
    /\ MemoListed(user).empty
    /\ \A k \in Keywords \cup {"j"} : ~MemoShown(user, k).found

\* C14: after reset_my_settings of a user every read for that user, memo
\* show and memo list included, gives the documented default.
C14_ResetClearsAllFive ==
    [][\A u \in Users : reset_my_settings_cmd(u) => ReadsDefault(u)']_vars

\* all_erase has run to its end and no saving command came after it
AllEraseDone == save.pc = "idle" /\ save.reply = "AllCleared"
AllMapsEmpty == [name \in DOMAIN InMemory |-> <<>>]

\* C15 as stated: after a privileged all_erase every read of every user
\* gives the documented default and the persisted document (what data.json
\* loads as) has five empty maps.
C15_AllEraseDefaultsAndPersisted ==
    AllEraseDone =>
        /\ \A u \in Users : ReadsDefault(u)
        /\ Persisted(fs) = AllMapsEmpty

\* C15 as amended: after a privileged all_erase every read of every user
\* gives the documented default; data.json holds five empty maps when the
\* save of the command succeeded, and is as it was before when it failed.
C15_AllEraseDefaults ==
    AllEraseDone =>
        /\ \A u \in Users : ReadsDefault(u)
        /\ IF save.ok
           THEN /\ fs[DATA_FILE].exists /\ JsonLoads(fs[DATA_FILE].data).ok
                /\ Persisted(fs) = AllMapsEmpty
           ELSE fs[DATA_FILE] = save.prev

\* all_erase has emptied a store that held data, and a memo was asked for after it
C15_Witness ==
    /\ AllEraseDone /\ save.ok
    /\ save.prev = File(SampleText)
    /\ shown.cmd = "memo_show" /\ shown.user = 2 /\ ~shown.found

\* the user's dict of memos
MemosOf(user) == DictGet(memos, UserKey(user), <<>>)

\* C16: memo add of a keyword the user already has replaces its content:
\* memo show then gives the new content and the user has exactly one entry
\* of the keyword.
C16_MemoAddIsUpsert ==
    [][\A u \in Users, k \in Keywords, c \in Contents :
           (memo_add(u, k, c) /\ DictHas(MemosOf(u), k)) =>
               /\ MemoShown(u, k)' = [cmd |-> "memo_show", user |-> u, keyword |-> k,
                                      found |-> TRUE, content |-> c]
               /\ Cardinality({i \in DOMAIN MemosOf(u)' : MemosOf(u)'[i][1] = k}) = 1]_vars

\* C17: memo forget of a keyword the user has removes it, answers that it
\* is forgotten, and memo show reports it absent; of a keyword the user
\* does not have it gives the negative answer, raises nothing and changes
\* neither the maps nor data.json.
C17_MemoForget ==
    [][\A u \in Users, k \in Keywords :
           memo_forget(u, k) =>
               IF DictHas(MemosOf(u), k)
               THEN /\ save'.reply = "MemoForgotten"
                    /\ ~DictHas(MemosOf(u)', k)
                    /\ ~MemoShown(u, k)'.found
               ELSE /\ response' = "MemoNeverKnown"
                    /\ startup' = "running"
                    /\ UNCHANGED <<prefVars, fs, save>>]_vars

\* a memo the user had was forgotten and memo show then reported it absent
C17_Witness ==
    /\ save.pc = "idle" /\ save.reply = "MemoForgotten"
    /\ Persisted(OnlyDataFile(save.prev))["memos"] # <<>>
    /\ shown.cmd = "memo_show" /\ shown.user = 2 /\ shown.keyword = "k" /\ ~shown.found

----------------------------------------------------------------------------
(* Properties of reply_helper *)

GreetingOn(user) == DictGet(greeting_prefs, UserKey(user), FALSE)
SilentOn(user) == DictGet(silent_prefs, UserKey(user), FALSE)
DisplayName(user, fallback) == Characters(DictGet(nicknames, UserKey(user), fallback))

\* [marker if silent] + [display-name + separator if greeting] + base
Composition(user, fallback, separator, base) ==
    (IF SilentOn(user) THEN SilentMarker ELSE <<>>)
    \o (IF GreetingOn(user) THEN DisplayName(user, fallback) \o separator ELSE <<>>)
    \o base

Greeted(user, fallback, base) ==
    IF GreetingOn(user) THEN DisplayName(user, fallback) \o IdeographicComma \o base
    ELSE base

MarkerCount(text) ==
    Cardinality({i \in 1..Len(text) :
                    i + Len(SilentMarker) - 1 <= Len(text)
                    /\ SubSeq(text, i, i + Len(SilentMarker) - 1) = SilentMarker})

\* C19: with silent on, composing again from a reply (same user, same
\* preferences) gives a text with as many markers as the reply has.
C19_MarkerNotAddedTwice ==
    [][\A u \in Users, d \in DisplayNames, b \in BaseTexts :
           (reply_helper(u, d, b) /\ SilentOn(u)) =>
               MarkerCount(ComposeReply(u, d, final_reply')) = MarkerCount(final_reply')]_vars

----------------------------------------------------------------------------
(* Liveness of the scheduler *)

\* C20: every entry appended to active_timers is eventually removed from it
\* (the scan keeps running and the clock reaches its due time), and an entry
\* that was removed is never in active_timers again.
C20_EventuallyRemoved ==
    /\ \A id \in 1..MaxTimers : Pending(id) ~> ~Pending(id)
    /\ [][\A id \in DOMAIN created :
             ~Pending(id) => ~PendingIn(active_timers', id)]_vars

\* two entries were appended and both are gone, one after a send that raised
C20_Witness ==
    /\ Len(created) = 2
    /\ ~Pending(1) /\ ~Pending(2)
    /\ failures[1] = 1

----------------------------------------------------------------------------
(* Entries with identical fields, and entries scheduled during a scan *)

\* the pairs of distinct dicts appended whose four fields agree
Duplicates ==
    {p \in (DOMAIN created) \X (DOMAIN created) :
        p[1] # p[2] /\ SameFields(created[p[1]], created[p[2]])}

\* the entry with this identity leaves active_timers in the step
Leaves(id) == Pending(id) /\ ~PendingIn(active_timers', id)

\* C21: of two entries appended with identical fields (same due time,
\* channel, user and message) each stays in active_timers until it is due,
\* each is sent for exactly once by the scan that finds it due (two sends in
\* total), and when one of them leaves active_timers the other is still
\* there or has been sent for.
C21_DuplicatesIndependent ==
    /\ [](\A p \in Duplicates :
             /\ now < created[p[1]].time => Pending(p[1])
             /\ attempts[p[1]] <= 1)
    /\ [][LoopReturns =>
            \A p \in Duplicates : \A k \in DOMAIN LoopDue :
                LoopDue[k].id = p[1] => attempts'[p[1]] = 1 /\ attempts'[p[2]] = 1]_vars
    /\ [][\A p \in Duplicates :
            Leaves(p[1]) => PendingIn(active_timers', p[2]) \/ attempts'[p[2]] >= 1]_vars

\* the entries appended while a run of check_timers was suspended in a send
DuringScan == {id \in DOMAIN created : created[id].during # 0}

\* the tasks.loop coroutine is in the run the entry was appended during
InRunOf(id) ==
    /\ scan["loop"].pc = "sending"
    /\ \E k \in DOMAIN scan["loop"].due : scan["loop"].due[k].id = created[id].during

\* C22: an entry appended by /timer or /alarm while a run of check_timers is
\* suspended in a send is in active_timers at every step of that run up to
\* its return and is not sent for by it; it is sent for exactly once, by the
\* later scan that finds it due, not before its due time, and leaves
\* active_timers only then.
C22_ScheduledDuringScanNotLost ==
    /\ [][\A id \in DuringScan :
            (LoopStep /\ InRunOf(id)) =>
                PendingIn(active_timers', id) /\ attempts'[id] = 0]_vars
    /\ [](\A id \in DuringScan :
            /\ attempts[id] <= 1
            /\ attempts[id] = 1 => now >= created[id].time)
    /\ [][LoopReturns =>
            \A id \in DuringScan : \A k \in DOMAIN LoopDue :
                LoopDue[k].id = id => attempts'[id] = 1]_vars
    /\ [][\A id \in DuringScan : Leaves(id) => attempts'[id] = 1]_vars

----------------------------------------------------------------------------
(* Further properties of the memo commands and of all_erase *)

\* what memo show displays for a keyword the user has with this content
ShownContent(user, keyword, content) ==
    [cmd |-> "memo_show", user |-> user, keyword |-> keyword, found |-> TRUE,
     content |-> content]

\* C23: after memo add(k, c) memo show(k) gives c, for every content c, the
\* empty string included; and memo show reports a keyword absent only when
\* the user has no entry of it (it was never added, or was forgotten).
C23_ShowReturnsStored ==
    /\ [][\A u \in Users, k \in Keywords, c \in Contents :
            memo_add(u, k, c) => MemoShown(u, k)' = ShownContent(u, k, c)]_vars
    /\ [][\A u \in Users, k \in Keywords :
            memo_show(u, k) =>
                IF DictHas(MemosOf(u), k)
                THEN shown' = ShownContent(u, k, DictGet(MemosOf(u), k, ""))
                ELSE ~shown'.found]_vars

\* C24: all_erase by a caller who is neither the guild's owner nor has
\* manage_guild, or who is outside a guild, is refused and changes nothing:
\* the five maps, data.json and the temporary file are as before, and no
\* save is started.
C24_AllEraseRefused ==
    [][\A u \in Users, caller \in Callers :
           (all_erase_cmd(u, IsPrivileged(caller))
            /\ (~caller.guild \/ (~caller.owner /\ ~caller.manage_guild))) =>
               /\ response' = "AdminOnly"
               /\ UNCHANGED <<prefVars, fs, save>>]_vars

\* all_erase was refused after a successful set_name: the nickname is still
\* in memory and in data.json with the rest of the document
C24_Witness ==
    /\ response = "AdminOnly" /\ ops = 2
    /\ SaveSucceeded /\ save.reply = "NameSet"
    /\ DictHas(nicknames, "2") /\ memos # <<>>
    /\ Persisted(fs) = InMemory

----------------------------------------------------------------------------
(* Properties of a restart *)

\* data.json as the last save that succeeded left it (a save of this process
\* or of one before it), or absent when there never was one: the text of the
\* last save when it ran to its end, the file it found when it did not
LastSavedFile ==
    IF save.ok /\ ~(save.prev = Absent /\ save.new = <<>>) THEN File(save.new)
    ELSE save.prev

LastSavedMaps ==
    IF LastSavedFile.exists THEN Persisted(OnlyDataFile(LastSavedFile)) ELSE AllMapsEmpty

\* C25: when the process is started again it is running with no pending
\* entry, and its five maps are those of the document the last successful
\* save wrote, or are all empty when there is no file because no save ever
\* succeeded; an update whose save did not succeed and that no successful
\* save followed is not in them.
C25_RestartLoadsLastSaved ==
    [][Restart =>
        /\ startup' = "running"
        /\ active_timers' = <<>>
        /\ InMemory' = LastSavedMaps
        /\ (InMemory # LastSavedMaps => InMemory' # InMemory)]_vars

\* the process was started again after a timer was set and a nickname was
\* saved, and after a memo add whose save did not succeed: no entry is
\* pending, the nickname is there and the memo is not
C25_Witness ==
    /\ response = "none" /\ save.pc = "idle" /\ ~save.ok /\ ops = 2
    /\ Len(created) >= 1 /\ active_timers = <<>>
    /\ DictHas(nicknames, "2")
    /\ InMemory = Persisted(fs)
    /\ InMemory # Persisted(OnlyDataFile(File(save.new)))
    /\ fs[DATA_FILE] # File(SampleText)

----------------------------------------------------------------------------
(* Who changes what *)

\* a step of /timer or /alarm that appends: one new dict, at the end
Appends ==
    /\ Len(created') = Len(created) + 1
    /\ active_timers' = Append(active_timers, created'[Len(created')])

\* a step of a preference command (ops counts them) or of its save
PreferenceStep == ops' # ops \/ save' # save

\* C26: active_timers is changed only by an append of /timer or /alarm and
\* by a step of check_timers, which only removes entries that are due; a
\* step of a preference command (reset_my_settings and all_erase included)
\* or of its save leaves it as it is; no entry leaves it otherwise (nothing
\* cancels); and a step of check_timers leaves the five maps, data.json and
\* the save as they are.
C26_PendingSetFrame ==
    /\ [][active_timers' # active_timers =>
            \/ Appends
            \/ /\ LoopStep
               /\ NotDue(active_timers', LoopAt) = NotDue(active_timers, LoopAt)
               /\ \A k \in DOMAIN active_timers' :
                      PendingIn(active_timers, active_timers'[k].id)]_vars
    /\ [][PreferenceStep => UNCHANGED <<active_timers, created>>]_vars
    /\ [][\A id \in DOMAIN created :
            Leaves(id) => LoopStep /\ created[id].time <= LoopAt]_vars
    /\ [][LoopStep => UNCHANGED <<prefVars, fs, save>>]_vars

\* with an entry pending and a nickname in memory, all_erase has emptied the
\* maps and the document: the entry is still pending
C26_Witness ==
    /\ AllEraseDone /\ save.ok /\ Persisted(fs) = AllMapsEmpty
    /\ save.prev # Absent
    /\ Len(active_timers) = 1

----------------------------------------------------------------------------
(* The order of memo list *)

\* the user's keywords in the order the dict holds them
KeysOf(user) == [i \in DOMAIN MemosOf(user) |-> MemosOf(user)[i][1]]
Without(keys, keyword) == SelectSeq(keys, LAMBDA x : x # keyword)

\* C27: memo list shows each keyword the user has exactly once, in the order
\* of insertion: memo add of a keyword the user has leaves the order as it
\* is, memo add of a keyword the user does not have (never added, or
\* forgotten) puts it last, memo forget takes the keyword out and leaves the
\* others in order, and no other step changes the order.
C27_ListInInsertionOrder ==
    /\ [][\A u \in Users :
            memo_list(u) =>
                /\ shown'.keys = KeysOf(u)
                /\ shown'.empty = (KeysOf(u) = <<>>)
                /\ \A i, j \in DOMAIN shown'.keys :
                       shown'.keys[i] = shown'.keys[j] => i = j]_vars
    /\ [][\A u \in Users, k \in MemoKeywords, c \in Contents :
            memo_add(u, k, c) =>
                KeysOf(u)' = IF DictHas(MemosOf(u), k) THEN KeysOf(u)
                             ELSE Append(KeysOf(u), k)]_vars
    /\ [][\A u \in Users, k \in MemoKeywords :
            memo_forget(u, k) => KeysOf(u)' = Without(KeysOf(u), k)]_vars
    /\ [][\A u \in Users :
            KeysOf(u)' # KeysOf(u) => memos' # memos /\ ops' = ops + 1]_vars

\* the user had k then j; k was forgotten and added again, and memo list
\* showed j before k
C27_Witness ==
    /\ shown.cmd = "memo_list" /\ shown.user = 2
    /\ shown.keys = <<"j", "k">>
    /\ ops = 2 /\ SaveSucceeded /\ save.reply = "MemoAdded"
    /\ Persisted(OnlyDataFile(save.prev))["memos"] = << <<"2", << <<"j", "">> >> >> >>

----------------------------------------------------------------------------
(* One user's commands and another user's entries *)

\* a user's entry in each of five maps: <<>> when the map has none, <<v>>
\* when it has the value v
EntriesIn(maps, user) ==
    [name \in DOMAIN maps |->
        IF DictHas(maps[name], ToString(user))
        THEN <<DictGet(maps[name], ToString(user), <<>>)>> ELSE <<>>]

\* the five maps change only in the step of a command (ops counts them), and
\* of the entries of the users only those of the user who issued it
OthersUntouchedInMemory ==
    [][\A b \in Users :
           EntriesIn(InMemory', b) # EntriesIn(InMemory, b) =>
               ops' = ops + 1 /\ save'.pc = "open" /\ save'.user = b]_vars

\* C28 as stated: a per-user command of user A leaves the entries of every
\* other user B unchanged in the five maps in memory, and data.json changes
\* only in the save of the command and there too B's entries stay as they
\* were.
C28_OthersUntouched ==
    /\ OthersUntouchedInMemory
    /\ [][fs'[DATA_FILE] # fs[DATA_FILE] =>
            /\ save.pc = "closed"
            /\ \A b \in Users \ {save.user} :
                   EntriesIn(Persisted(fs'), b) = EntriesIn(Persisted(fs), b)]_vars

\* C28 as amended: a per-user command of user A leaves the entries of every
\* other user B unchanged in memory; in data.json the save of the command
\* leaves B's entries unchanged as well, unless they differ from B's entries
\* in memory (an earlier save failed): then the save, when it succeeds,
\* writes B's entries as they are in memory.
C28_OthersUntouchedOrCaughtUp ==
    /\ OthersUntouchedInMemory
    /\ [][fs'[DATA_FILE] # fs[DATA_FILE] =>
            /\ save.pc = "closed"
            /\ \A b \in Users \ {save.user} :
                   IF EntriesIn(Persisted(fs), b) = EntriesIn(InMemory, b)
                   THEN EntriesIn(Persisted(fs'), b) = EntriesIn(Persisted(fs), b)
                   ELSE EntriesIn(Persisted(fs'), b) = EntriesIn(InMemory, b)]_vars

\* user 2 has set a nickname and the save succeeded, while user 1 keeps, in
\* memory and in data.json, the entries the store started with
C28_Witness ==
    /\ SaveSucceeded /\ save.user = 2 /\ save.reply = "NameSet" /\ save.failed = 0
    /\ EntriesIn(InMemory, 1) = EntriesIn(Persisted(OnlyDataFile(File(SampleText))), 1)
    /\ EntriesIn(Persisted(fs), 1) = EntriesIn(InMemory, 1)
    /\ EntriesIn(InMemory, 1)["nicknames"] = <<"Aki">>
    /\ EntriesIn(Persisted(fs), 2)["nicknames"] = <<"Aki">>

----------------------------------------------------------------------------
(* What memory_read discloses *)

\* the store in which the user has the entries of the maps in memory and the
\* other user has these entries
WithOther(user, other) ==
    StoreOf([u \in Users |-> IF u = user THEN EntriesIn(InMemory, u) ELSE other])

\* the value of a key of a document
Disclosed(doc, name) == DictGet(doc, name, <<>>)

\* C29: when memory_read has answered a caller who is not the guild's owner
\* and has not manage_guild (or is outside a guild), what it sent is what it
\* sends on every store in which the caller has the same entries, whatever
\* the other user has; and the text holds under each map no key but the
\* caller's id, with the caller's own value (false for a flag the caller has
\* not set).
C29_MemoryReadOwnOnly ==
    (shown.cmd = "memory_read"
     /\ (~shown.caller.guild \/ (~shown.caller.owner /\ ~shown.caller.manage_guild))) =>
        LET u == shown.user
            parsed == JsonLoads(shown.text)
        IN /\ \A other \in ReadEntries :
                  MemoryRead(u, shown.caller, WithOther(u, other)) = shown
           /\ parsed.ok
           /\ Disclosed(parsed.val, "scope") = "self"
           /\ \A name \in DOMAIN InMemory :
                  /\ DictKeys(Disclosed(parsed.val, name)) \subseteq {ToString(u)}
                  /\ \A i \in DOMAIN Disclosed(parsed.val, name) :
                         Disclosed(parsed.val, name)[i][2] =
                             DictGet(InMemory[name], ToString(u), FALSE)

\* user 1, who has a nickname and a memo, has read the memory without
\* rights while user 2 has a nickname, a memo of another content and a model
\* choice
C29_Witness ==
    /\ shown.cmd = "memory_read" /\ shown.user = 1 /\ ~shown.attached
    /\ shown.caller = [guild |-> TRUE, owner |-> FALSE, manage_guild |-> FALSE]
    /\ Disclosed(JsonLoads(shown.text).val, "scope") = "self"
    /\ Disclosed(JsonLoads(shown.text).val, "nicknames") = << <<"1", "Aki">> >>
    /\ Disclosed(JsonLoads(shown.text).val, "memos") = << <<"1", << <<"k", "v">> >> >> >>
    /\ DictGet(memos, "2", <<>>) = << <<"k", LongContent>> >>
    /\ DictHas(nicknames, "2") /\ DictHas(model_prefs, "2")

====
